---- MODULE Spec2Model ----
(***************************************************************************)
(* A model of src/src/hooks/useChat.ts: the quick-reply extractor, the     *)
(* assistant-message upsert, and sendMessage with its streaming decode     *)
(* loop (line framing, record classification, re-buffering, final flush).  *)
(*                                                                         *)
(* Text is a sequence of lexemes.  One lexeme stands for a run of          *)
(* characters that the code only ever inspects as a whole:                 *)
(*   NL      "\n"                    CR    "\r"          SP   " "          *)
(*   COLON   ":"                     DATA  "data: " (the six characters)   *)
(*   DONE    "[DONE]"                                                      *)
(*   P_H     {"choices":[{"delta":{"content":"h"}}]}                       *)
(*   P_OPEN  the same with content  <!--QUICK_REPLIES:["Yes"               *)
(*   P_CLOSE the same with content  ]-->                                   *)
(*   P_EMPTY the same with content  "" (the empty string)                  *)
(*   P_ROLE  {"choices":[{"delta":{"role":"assistant"}}]}                  *)
(*   P_NULL  null                                                          *)
(*   P_BAD   {"choices":[{"delta":{"con      (cut short: not JSON)         *)
(*   EVENT   event: ping             (a line that is no data line)         *)
(*   H       a visible letter        MOPEN  <!--QUICK_REPLIES:[            *)
(*   MCLOSE  ]-->                    YES    "Yes"   (a JSON string)        *)
(*   COMMA   ,                                                             *)
(* The read loop looks at a line only once its "\n" has arrived, so where  *)
(* a chunk boundary falls inside a lexeme cannot change what it does: a    *)
(* chunk boundary is modelled between lexemes.                             *)
(***************************************************************************)
EXTENDS Integers, Sequences, FiniteSets, TLC

NL == "\\n"
CR == "\\r"
SP == " "
COLON == ":"
DATA == "data: "
DONE == "[DONE]"
P_H == "{content:h}"
P_OPEN == "{content:<!--QUICK_REPLIES:[\"Yes\"}"
P_CLOSE == "{content:]-->}"
P_EMPTY == "{content:}"
P_ROLE == "{role}"
P_NULL == "null"
P_BAD == "{conte"
EVENT == "event: ping"
H == "h"
MOPEN == "<!--QUICK_REPLIES:["
MCLOSE == "]-->"
YES == "\"Yes\""
COMMA == ","

(***************************************************************************)
(* String primitives of JavaScript, on sequences of lexemes.               *)
(***************************************************************************)
WhiteSpace == {SP, CR, NL}

\* String.prototype.trim: strips white space and line terminators at both ends
Trim(s) ==
  LET keep == {i \in 1..Len(s) : s[i] \notin WhiteSpace}
  IN IF keep = {} THEN <<>>
     ELSE LET lo == CHOOSE i \in keep : \A j \in keep : i <= j
              hi == CHOOSE i \in keep : \A j \in keep : j <= i
          IN SubSeq(s, lo, hi)

\* String.prototype.indexOf for a one-lexeme needle; 0 stands for -1
IndexOf(s, c) ==
  LET at == {i \in 1..Len(s) : s[i] = c}
  IN IF at = {} THEN 0 ELSE CHOOSE i \in at : \A j \in at : i <= j

StartsWith(s, c) == Len(s) > 0 /\ s[1] = c

EndsWith(s, c) == Len(s) > 0 /\ s[Len(s)] = c

\* line.slice(0, -1)
DropLast(s) == SubSeq(s, 1, Len(s) - 1)

\* String.prototype.split("\n")
RECURSIVE SplitNL(_)
SplitNL(s) ==
  LET i == IndexOf(s, NL)
  IN IF i = 0 THEN <<s>>
     ELSE <<SubSeq(s, 1, i - 1)>> \o SplitNL(SubSeq(s, i + 1, Len(s)))

(***************************************************************************)
(* extractQuickReplies (useChat.ts 19-29).                                 *)
(***************************************************************************)
\* "." of the regular expression: any character but a line terminator
Dot(c) == c \notin {NL, CR}

\* The end of the non-greedy match of (.+?)\]--> for a marker opened at i:
\* the nearest MCLOSE with at least one character, all matched by ".",
\* between; 0 when the expression does not match at i.
\* the end of a greedy match, (.+)\]-->: the farthest MCLOSE
CloseFrom_greedy(s, i, j) ==
  LET ends == {k \in j..Len(s) :
                 /\ k > i + 1 /\ s[k] = MCLOSE
                 /\ \A x \in (i + 1)..(k - 1) : Dot(s[x])}
  IN IF ends = {} THEN 0 ELSE CHOOSE k \in ends : \A o \in ends : o <= k

RECURSIVE CloseFrom(_, _, _)
CloseFrom(s, i, j) ==
  IF j > Len(s) THEN 0
  ELSE IF j > i + 1 /\ s[j] = MCLOSE THEN j
  ELSE IF Dot(s[j]) THEN CloseFrom(s, i, j + 1)
  ELSE 0

\* content.match(/<!--QUICK_REPLIES:\[(.+?)\]-->/): the leftmost start at
\* which the expression matches, as <<open, close>>; <<0, 0>> for null
RECURSIVE MatchFrom(_, _)
MatchFrom(s, i) ==
  IF i > Len(s) THEN <<0, 0>>
  ELSE IF s[i] = MOPEN /\ CloseFrom(s, i, i + 1) # 0
       THEN <<i, CloseFrom(s, i, i + 1)>>
  ELSE MatchFrom(s, i + 1)

MarkerMatch(s) == MatchFrom(s, 1)

\* What JSON.parse makes of one element literal
ElementValue(tok) == IF tok = YES THEN "Yes" ELSE "?"

\* JSON.parse(`[${match[1]}]`): the inner text is a JSON array body when,
\* white space aside, it is empty or element (, element)*.  The result is
\* [ok |-> FALSE] for a SyntaxError.
RECURSIVE ParseElements(_, _)
ParseElements(toks, wantElement) ==
  IF toks = <<>> THEN [ok |-> ~wantElement, value |-> <<>>]
  ELSE IF wantElement
       THEN IF Head(toks) = YES
            THEN LET rest == ParseElements(Tail(toks), FALSE)
                 IN [ok |-> rest.ok,
                     value |-> <<ElementValue(Head(toks))>> \o rest.value]
            ELSE [ok |-> FALSE, value |-> <<>>]
       ELSE IF Head(toks) = COMMA THEN ParseElements(Tail(toks), TRUE)
            ELSE [ok |-> FALSE, value |-> <<>>]

JsonParseArray(inner) ==
  LET toks == SelectSeq(inner, LAMBDA c : c \notin WhiteSpace)
  IN IF toks = <<>> THEN [ok |-> TRUE, value |-> <<>>]
     ELSE ParseElements(toks, TRUE)

\* extractQuickReplies with the replace of line 24 done before the parse, so
\* that the catch returns the stripped text
extractQuickReplies_stripFirst(content) ==
  LET m == MarkerMatch(content)
  IN IF m[1] = 0 THEN [cleanContent |-> content, quickReplies |-> <<>>]
     ELSE LET replies == JsonParseArray(SubSeq(content, m[1] + 1, m[2] - 1))
              stripped == Trim(SubSeq(content, 1, m[1] - 1)
                               \o SubSeq(content, m[2] + 1, Len(content)))
          IN [cleanContent |-> stripped,
              quickReplies |-> IF replies.ok THEN replies.value ELSE <<>>]

extractQuickReplies(content) ==
  LET m == MarkerMatch(content)
  IN IF m[1] = 0 THEN [cleanContent |-> content, quickReplies |-> <<>>]
     ELSE LET replies == JsonParseArray(SubSeq(content, m[1] + 1, m[2] - 1))
          IN IF replies.ok
             THEN [cleanContent |->
                     Trim(SubSeq(content, 1, m[1] - 1)
                          \o SubSeq(content, m[2] + 1, Len(content))),
                   quickReplies |-> replies.value]
             ELSE [cleanContent |-> content, quickReplies |-> <<>>]

(***************************************************************************)
(* The payload of a data record (useChat.ts 196-199, 216-219).             *)
(***************************************************************************)
\* JSON.parse(jsonStr) followed by parsed.choices?.[0]?.delta?.content.
\* threw: JSON.parse raised a SyntaxError, or the property access raised a
\* TypeError (parsed is null); both land in the same catch.
\* content: the content string; <<>> when it is absent or empty (falsy).
PayloadContent(jsonStr) ==
  IF jsonStr = <<P_H>> THEN [threw |-> FALSE, content |-> <<H>>]
  ELSE IF jsonStr = <<P_OPEN>> THEN [threw |-> FALSE, content |-> <<MOPEN, YES>>]
  ELSE IF jsonStr = <<P_CLOSE>> THEN [threw |-> FALSE, content |-> <<MCLOSE>>]
  ELSE IF jsonStr \in {<<P_EMPTY>>, <<P_ROLE>>} THEN [threw |-> FALSE, content |-> <<>>]
  ELSE [threw |-> TRUE, content |-> <<>>]

(***************************************************************************)
(* upsertAssistant (useChat.ts 53-68).  A decode state d carries the       *)
(* locals of one sendMessage call and the store's message list:            *)
(*   soFar  assistantSoFar        buf   textBuffer                         *)
(*   msgs   the message list      id    assistantId     ts  the clock      *)
(*   streamDone                                                            *)
(* and, as a record of what happened (never read by the code),             *)
(*   records    every line sliced out of textBuffer, CR stripped           *)
(*   published  every view handed to setMessages                           *)
(*   malformed  the first record whose payload threw in the read loop      *)
(*   atFail     the number of views published when it threw                *)
(***************************************************************************)
AssistantMessage(id, ts, view) ==
  [id |-> id, role |-> "assistant", content |-> view.cleanContent,
   timestamp |-> ts, quickReplies |-> view.quickReplies]

\* an updater that stamps the message again when it replaces it
UpsertMessages_newTimestamp(prev, id, ts, view) ==
  IF Len(prev) > 0 /\ prev[Len(prev)].role = "assistant" /\ prev[Len(prev)].id = id
  THEN [i \in 1..Len(prev) |->
          IF i = Len(prev)
          THEN [prev[i] EXCEPT !.content = view.cleanContent,
                               !.quickReplies = view.quickReplies,
                               !.timestamp = ts]
          ELSE prev[i]]
  ELSE Append(prev, [id |-> id, role |-> "assistant", content |-> view.cleanContent,
                     timestamp |-> ts, quickReplies |-> view.quickReplies])

\* the updater passed to setMessages (56-67)
UpsertMessages(prev, id, ts, view) ==
  IF Len(prev) > 0 /\ prev[Len(prev)].role = "assistant" /\ prev[Len(prev)].id = id
  THEN [i \in 1..Len(prev) |->
          IF i = Len(prev)
          THEN [prev[i] EXCEPT !.content = view.cleanContent,
                               !.quickReplies = view.quickReplies]
          ELSE prev[i]]
  ELSE Append(prev, AssistantMessage(id, ts, view))

\* upsertAssistant that extracts from the new chunk alone and appends the
\* result to what the message showed
upsertAssistant_incremental(d, chunk) ==
  LET soFar == d.soFar \o chunk
      last == extractQuickReplies(d.soFar)
      part == extractQuickReplies(chunk)
      view == [cleanContent |-> last.cleanContent \o part.cleanContent,
               quickReplies |-> part.quickReplies]
  IN [d EXCEPT !.soFar = soFar,
               !.msgs = UpsertMessages(d.msgs, d.id, d.ts, view),
               !.published = Append(@, view)]

\* upsertAssistant that puts the chunk in front of the text
upsertAssistant_prepend(d, chunk) ==
  LET soFar == chunk \o d.soFar
      view == extractQuickReplies(soFar)
  IN [d EXCEPT !.soFar = soFar,
               !.msgs = UpsertMessages(d.msgs, d.id, d.ts, view),
               !.published = Append(@, view)]

upsertAssistant(d, chunk) ==
  LET soFar == d.soFar \o chunk
      view == extractQuickReplies(soFar)
  IN [d EXCEPT !.soFar = soFar,
               !.msgs = UpsertMessages(d.msgs, d.id, d.ts, view),
               !.published = Append(@, view)]

(***************************************************************************)
(* The read loop's inner while (useChat.ts 182-204): one pass over the     *)
(* lines that textBuffer holds.                                            *)
(***************************************************************************)
\* line.endsWith("\r") ? line.slice(0, -1) : line   (186, 211)
StripCR(line) == IF EndsWith(line, CR) THEN DropLast(line) ELSE line

\* the two "continue" tests (187-188, 212-213)
Skipped(line) ==
  StartsWith(line, COLON) \/ Trim(line) = <<>> \/ ~StartsWith(line, DATA)

\* line.slice(6).trim(): DATA is the six characters sliced off
JsonStr(line) == Trim(Tail(line))

\* textBuffer.slice(newlineIndex + 1) that skips one character more
RestAfter_skipOne(buf, newlineIndex) == SubSeq(buf, newlineIndex + 2, Len(buf))

\* textBuffer.slice(newlineIndex + 1)   (184)
RestAfter(buf, newlineIndex) == SubSeq(buf, newlineIndex + 1, Len(buf))

\* a catch that drops the record instead of putting it back
Rebuffer_drop(d, line, rest) ==
  [d EXCEPT !.buf = rest,
            !.malformed = IF @ = <<>> THEN <<line>> ELSE @,
            !.atFail = IF d.malformed = <<>> THEN Len(d.published) ELSE @]

\* a catch that puts the record back behind what textBuffer holds
Rebuffer_atEnd(d, line, rest) ==
  [d EXCEPT !.buf = rest \o line \o <<NL>>,
            !.malformed = IF @ = <<>> THEN <<line>> ELSE @,
            !.atFail = IF d.malformed = <<>> THEN Len(d.published) ELSE @]

\* the catch of the read loop (200-203)
Rebuffer(d, line, rest) ==
  [d EXCEPT !.buf = line \o <<NL>> \o rest,
            !.malformed = IF @ = <<>> THEN <<line>> ELSE @,
            !.atFail = IF d.malformed = <<>> THEN Len(d.published) ELSE @]

\* an "if" where the inner "while" stands: one line for each chunk
ProcessLines_once(d) ==
  LET newlineIndex == IndexOf(d.buf, NL)
  IN IF newlineIndex = 0 THEN d
     ELSE LET line == StripCR(SubSeq(d.buf, 1, newlineIndex - 1))
              rest == RestAfter(d.buf, newlineIndex)
              d1 == [d EXCEPT !.buf = rest, !.records = Append(@, line)]
          IN IF Skipped(line) THEN d1
             ELSE IF JsonStr(line) = <<DONE>> THEN [d1 EXCEPT !.streamDone = TRUE]
             ELSE LET p == PayloadContent(JsonStr(line))
                  IN IF p.threw THEN Rebuffer(d1, line, rest)
                     ELSE IF p.content # <<>>
                          THEN upsertAssistant(d1, p.content)
                          ELSE d1

RECURSIVE ProcessLines(_)
ProcessLines(d) ==
  LET newlineIndex == IndexOf(d.buf, NL)
  IN IF newlineIndex = 0 THEN d
     ELSE LET line == StripCR(SubSeq(d.buf, 1, newlineIndex - 1))
              rest == RestAfter(d.buf, newlineIndex)
              d1 == [d EXCEPT !.buf = rest, !.records = Append(@, line)]
          IN IF Skipped(line) THEN ProcessLines(d1)
             ELSE IF JsonStr(line) = <<DONE>> THEN [d1 EXCEPT !.streamDone = TRUE]
             ELSE LET p == PayloadContent(JsonStr(line))
                  IN IF p.threw THEN Rebuffer(d1, line, rest)
                     ELSE IF p.content # <<>>
                          THEN ProcessLines(upsertAssistant(d1, p.content))
                          ELSE ProcessLines(d1)

\* textBuffer += decoder.decode(value, {stream: true}), then the inner while
ReadLoopBody(d, chunk) == ProcessLines([d EXCEPT !.buf = @ \o chunk])

(***************************************************************************)
(* The final flush (useChat.ts 207-222).                                   *)
(***************************************************************************)
\* a flush that gives up at the first record that does not parse
RECURSIVE FlushLines_stopAtBad(_, _)
FlushLines_stopAtBad(d, raws) ==
  IF raws = <<>> THEN d
  ELSE LET raw == StripCR(Head(raws))
       IN IF Head(raws) = <<>> \/ Skipped(raw) \/ JsonStr(raw) = <<DONE>>
          THEN FlushLines_stopAtBad(d, Tail(raws))
          ELSE LET p == PayloadContent(JsonStr(raw))
               IN IF p.threw THEN d
                  ELSE IF p.content # <<>>
                       THEN FlushLines_stopAtBad(upsertAssistant(d, p.content), Tail(raws))
                       ELSE FlushLines_stopAtBad(d, Tail(raws))

RECURSIVE FlushLines(_, _)
FlushLines(d, raws) ==
  IF raws = <<>> THEN d
  ELSE LET raw == StripCR(Head(raws))
       IN IF Head(raws) = <<>> \/ Skipped(raw) \/ JsonStr(raw) = <<DONE>>
          THEN FlushLines(d, Tail(raws))
          ELSE LET p == PayloadContent(JsonStr(raw))
               IN IF ~p.threw /\ p.content # <<>>
                  THEN FlushLines(upsertAssistant(d, p.content), Tail(raws))
                  ELSE FlushLines(d, Tail(raws))

FinalFlush(d) ==
  IF Trim(d.buf) # <<>> THEN FlushLines(d, SplitNL(d.buf)) ELSE d

(***************************************************************************)
(* Bounds of the exploration.                                              *)
(***************************************************************************)
\* sendMessage invocations in one run of Spec
MaxCalls == 2
\* lines of the response in SpecStream
MaxLines == 2
\* the last value of the millisecond clock
MaxNow == 1
\* the length of assistantSoFar in SpecAssembler
MaxText == 5

Sends == 1..MaxCalls

(***************************************************************************)
(* The event feeds a response body may carry: up to n lines, the last one  *)
(* possibly cut before its newline.                                        *)
(***************************************************************************)
FeedLines ==
  { <<DATA, P_H, NL>>,        \* a content fragment
    <<DATA, P_H, CR, NL>>,    \* the same, ended by CR LF
    <<DATA, DONE, NL>>,       \* the sentinel
    <<DATA, P_BAD, NL>>,      \* a payload that does not parse
    <<DATA, P_ROLE, NL>>,     \* a payload without content
    <<DATA, P_NULL, NL>>,     \* the payload null
    <<DATA, P_OPEN, NL>>,     \* a fragment that opens a marker
    <<DATA, P_CLOSE, NL>>,    \* a fragment that closes it
    <<COLON, NL>>,            \* a comment
    <<EVENT, NL>>,            \* not a data line
    <<NL>> }                  \* a blank line

RECURSIVE FeedsOf(_)
FeedsOf(n) ==
  IF n = 0 THEN {<<>>}
  ELSE {<<>>} \cup {l \o f : l \in FeedLines, f \in FeedsOf(n - 1)}

\* a feed whose last line lost its newline: the server stopped mid-line
CutFeeds(n) ==
  {DropLast(f) : f \in {g \in FeedsOf(n) : Len(g) > 1}}

AllFeeds == FeedsOf(MaxLines) \cup CutFeeds(MaxLines)

\* the feeds of the runs that interleave several invocations: no content,
\* one fragment, two fragments
FewFeeds ==
  { <<>>, <<DATA, P_H, NL>>, <<DATA, P_H, NL, DATA, P_H, NL>> }

(***************************************************************************)
(* State.                                                                  *)
(*   messages         useChatStore's message list                          *)
(*   isLoading        the hook's state, as last set                        *)
(*   renderedLoading  isLoading as captured by the sendMessage closure of  *)
(*                    the last render (useCallback, 37 and 229)            *)
(*   now              the last value read from the clock (Date.now(), new  *)
(*                    Date()); a read returns any value not before it      *)
(*   toasts[s]        the notifications invocation s raised, in order      *)
(*   send[s]          the locals of invocation s: pc ("none" before it is  *)
(*                    made, "returned" when the guard refused it, "fetch"  *)
(*                    awaiting fetch, "read" awaiting reader.read(),       *)
(*                    "stalled" awaiting a read that never settles,        *)
(*                    "done"), assistantId, assistantSoFar, textBuffer     *)
(*   body[s]          what the response body of s has yet to deliver       *)
(*   calls            the invocations the run may still make               *)
(*   feeds            the feeds the server answers with in this run        *)
(*   hist[s]          a record of what happened to s, never read by the    *)
(*                    code                                                 *)
(***************************************************************************)
VARIABLES messages, isLoading, renderedLoading, now, toasts, send, body,
          calls, feeds, hist

vars == <<messages, isLoading, renderedLoading, now, toasts, send, body,
          calls, feeds, hist>>

NoSend == [pc |-> "none", assistantId |-> 0, assistantSoFar |-> <<>>,
           textBuffer |-> <<>>]

\* atAbandon: <<>>, or, once the caller has given the reply up, the number
\* of views published and of lexemes received at that moment
NoHist == [busyAtCall |-> FALSE, feed |-> <<>>, received |-> <<>>,
           records |-> <<>>, published |-> <<>>, malformed |-> <<>>,
           atFail |-> 0, response |-> 0, ended |-> "none", atEnd |-> 0,
           atAbandon |-> <<>>]

InitWith(c, l) ==
  /\ messages = <<>>
  /\ isLoading = FALSE
  /\ renderedLoading = FALSE
  /\ now = 0
  /\ toasts = [s \in Sends |-> <<>>]
  /\ send = [s \in Sends |-> NoSend]
  /\ body = [s \in Sends |-> <<>>]
  /\ calls = c
  /\ feeds = l
  /\ hist = [s \in Sends |-> NoHist]

\* the invocations under way: past the guard, not yet through finally
InProgress == {s \in Sends : send[s].pc \in {"fetch", "read", "stalled"}}

\* the next invocation
NextSend == CHOOSE s \in Sends : send[s].pc = "none" /\ \A t \in Sends : t < s => send[t].pc # "none"

(***************************************************************************)
(* React, and the clock.                                                   *)
(***************************************************************************)
\* A render after setIsLoading: useCallback makes a new sendMessage that
\* captures the new isLoading (its dependency list, line 229).
Render ==
  /\ renderedLoading # isLoading
  /\ renderedLoading' = isLoading
  /\ UNCHANGED <<messages, isLoading, now, toasts, send, body, calls, feeds, hist>>

\* the values a read of the clock may return
Clock == now..MaxNow

(***************************************************************************)
(* sendMessage, from the call to the first await (useChat.ts 37-151).      *)
(***************************************************************************)
UserTexts == {<<H>>, <<SP>>}

\* if (!text.trim() || isLoading) return;   (38)
Refused(text) == Trim(text) = <<>> \/ renderedLoading

UserMessage(text, t) ==
  [id |-> t, role |-> "user", content |-> text, timestamp |-> t,
   quickReplies |-> <<>>]

SendMessage(text, t) ==
  /\ calls > 0
  /\ calls' = calls - 1
  /\ LET s == NextSend
     IN /\ hist' = [hist EXCEPT ![s].busyAtCall = InProgress # {}]
        /\ IF Refused(text)
           THEN /\ send' = [send EXCEPT ![s].pc = "returned"]
                /\ UNCHANGED <<messages, isLoading, now>>
           ELSE /\ messages' = Append(messages, UserMessage(text, t))
                /\ isLoading' = TRUE
                /\ now' = t
                /\ send' = [send EXCEPT ![s].pc = "fetch",
                                        ![s].assistantId = t + 1]
  /\ UNCHANGED <<renderedLoading, toasts, body, feeds>>

(***************************************************************************)
(* The outcome of fetch (useChat.ts 144-169) and the catch and finally     *)
(* blocks (223-228).                                                       *)
(***************************************************************************)
Toast(s, title) == [toasts EXCEPT ![s] = Append(@, title)]

\* the catch without the finally block: the busy flag stays set
Caught_noFinally(s, how) ==
  /\ toasts' = Toast(s, "Connection Error")
  /\ isLoading' = isLoading
  /\ send' = [send EXCEPT ![s].pc = "done"]
  /\ hist' = [hist EXCEPT ![s].ended = how, ![s].atEnd = Len(hist[s].published)]

\* catch (e) { toast Connection Error } finally { setIsLoading(false) }
Caught(s, how) ==
  /\ toasts' = Toast(s, "Connection Error")
  /\ isLoading' = FALSE
  /\ send' = [send EXCEPT ![s].pc = "done"]
  /\ hist' = [hist EXCEPT ![s].ended = how, ![s].atEnd = Len(hist[s].published)]

\* fetch rejects: the network failed
FetchThrows(s) ==
  /\ send[s].pc = "fetch"
  /\ Caught(s, "threw")
  /\ UNCHANGED <<messages, renderedLoading, now, body, calls, feeds>>

Statuses == {429, 402, 500}

\* what resp.json().catch(() => ({})) resolves to: an object (with or without
\* an error field; also when the body is no JSON), or null
ErrorBodies == {"object", "null"}

StatusTitle(status) ==
  IF status = 429 THEN "Rate Limited"
  ELSE IF status = 402 THEN "Credits Exhausted"
  ELSE "Error"

\* !resp.ok (153-167).  errorData.error on null raises a TypeError, which
\* the catch turns into a Connection Error.
FetchNotOk(s, status, errorData) ==
  /\ send[s].pc = "fetch"
  /\ toasts' = Toast(s, IF errorData = "null" THEN "Connection Error"
                        ELSE StatusTitle(status))
  /\ isLoading' = FALSE
  /\ send' = [send EXCEPT ![s].pc = "done"]
  /\ hist' = [hist EXCEPT ![s].response = status, ![s].ended = "notok"]
  /\ UNCHANGED <<messages, renderedLoading, now, body, calls, feeds>>

\* resp.ok but no resp.body: throw new Error("No response body")  (169)
FetchNoBody(s) ==
  /\ send[s].pc = "fetch"
  /\ Caught(s, "threw")
  /\ UNCHANGED <<messages, renderedLoading, now, body, calls, feeds>>

\* resp.ok with a body: the reader is taken and the first read awaited
FetchOk(s) ==
  /\ send[s].pc = "fetch"
  /\ \E f \in (IF feeds = "all" THEN AllFeeds ELSE FewFeeds) :
       /\ body' = [body EXCEPT ![s] = f]
       /\ hist' = [hist EXCEPT ![s].feed = f, ![s].response = 200]
  /\ send' = [send EXCEPT ![s].pc = "read"]
  /\ UNCHANGED <<messages, isLoading, renderedLoading, now, toasts, calls, feeds>>

(***************************************************************************)
(* The read loop and what follows it (useChat.ts 176-228).                 *)
(***************************************************************************)
Decode(s, t) ==
  [soFar |-> send[s].assistantSoFar, buf |-> send[s].textBuffer,
   msgs |-> messages, id |-> send[s].assistantId, ts |-> t,
   streamDone |-> FALSE, records |-> hist[s].records,
   published |-> hist[s].published, malformed |-> hist[s].malformed,
   atFail |-> hist[s].atFail]

\* write a decode state back; over: the loop has ended and finally has run
Commit(s, d, over, chunk) ==
  /\ messages' = d.msgs
  /\ now' = IF Len(d.msgs) > Len(messages) THEN d.ts ELSE now
  /\ send' = [send EXCEPT ![s].assistantSoFar = d.soFar,
                          ![s].textBuffer = d.buf,
                          ![s].pc = IF over THEN "done" ELSE "read"]
  /\ isLoading' = IF over THEN FALSE ELSE isLoading
  /\ hist' = [hist EXCEPT ![s].records = d.records,
                          ![s].published = d.published,
                          ![s].malformed = d.malformed,
                          ![s].atFail = d.atFail,
                          ![s].received = @ \o chunk,
                          ![s].ended = IF over THEN "end" ELSE @,
                          ![s].atEnd = IF over THEN Len(d.published) ELSE @]

\* reader.read() resolves with the next n lexemes of the body
ReadChunk(s, n, t) ==
  /\ send[s].pc = "read"
  /\ LET chunk == SubSeq(body[s], 1, n)
         d == ReadLoopBody(Decode(s, t), chunk)
     IN /\ body' = [body EXCEPT ![s] = SubSeq(@, n + 1, Len(@))]
        /\ IF d.streamDone
           THEN Commit(s, FinalFlush(d), TRUE, chunk)
           ELSE Commit(s, d, FALSE, chunk)
  /\ UNCHANGED <<renderedLoading, toasts, calls, feeds>>

\* reader.read() resolves with done: break, final flush, finally
ReadDone(s, t) ==
  /\ send[s].pc = "read"
  /\ body[s] = <<>>
  /\ t \in Clock
  /\ Commit(s, FinalFlush(Decode(s, t)), TRUE, <<>>)
  /\ UNCHANGED <<renderedLoading, toasts, body, calls, feeds>>

\* reader.read() rejects: the connection broke
ReadThrows(s) ==
  /\ send[s].pc = "read"
  /\ Caught(s, "threw")
  /\ UNCHANGED <<messages, renderedLoading, now, body, calls, feeds>>

Next ==
  \/ Render
  \/ \E text \in UserTexts, t \in Clock : SendMessage(text, t)
  \/ \E s \in Sends : FetchThrows(s)
  \/ \E s \in Sends, status \in Statuses, e \in ErrorBodies : FetchNotOk(s, status, e)
  \/ \E s \in Sends : FetchNoBody(s)
  \/ \E s \in Sends : FetchOk(s)
  \/ \E s \in Sends, t \in Clock : \E n \in 1..Len(body[s]) : ReadChunk(s, n, t)
  \/ \E s \in Sends, t \in Clock : ReadDone(s, t)
  \/ \E s \in Sends : ReadThrows(s)

\* several invocations, a few feeds
Init == InitWith(MaxCalls, "few")

Spec == Init /\ [][Next]_vars

\* one invocation, every feed
InitStream == InitWith(1, "all")

SpecStream == InitStream /\ [][Next]_vars

(***************************************************************************)
(* The assembler alone: one invocation that has sent its request and is    *)
(* reading, and whose data records carry arbitrary content.  Each step is  *)
(* what the read loop does for one record with a content string            *)
(* (line 199): upsertAssistant(content).  hist.received keeps the          *)
(* contents handed over, one after the other.                              *)
(***************************************************************************)
Alphabet == {H, SP, NL, MOPEN, MCLOSE, YES, COMMA}

Fragments ==
  {<<c>> : c \in Alphabet}
    \cup {<<MOPEN, YES>>, <<YES, MCLOSE>>, <<MOPEN, YES, MCLOSE>>}

\* the list when the first fragment of a reply arrives: the user's message
\* last, after nothing or after an earlier exchange
EarlierExchange ==
  << [id |-> 0, role |-> "user", content |-> <<H>>, timestamp |-> 0,
      quickReplies |-> <<>>],
     [id |-> 1, role |-> "assistant", content |-> <<H>>, timestamp |-> 1,
      quickReplies |-> <<"Yes">>] >>

InitAssembler ==
  /\ messages \in { <<UserMessage(<<H>>, 2)>>,
                    EarlierExchange \o <<UserMessage(<<H>>, 2)>> }
  /\ isLoading = TRUE
  /\ renderedLoading = TRUE
  /\ now = 2
  /\ toasts = [s \in Sends |-> <<>>]
  /\ send = [s \in Sends |->
               IF s = 1 THEN [NoSend EXCEPT !.pc = "read", !.assistantId = 3]
               ELSE NoSend]
  /\ body = [s \in Sends |-> <<>>]
  /\ calls = 0
  /\ feeds = "few"
  /\ hist = [s \in Sends |-> IF s = 1 THEN [NoHist EXCEPT !.response = 200] ELSE NoHist]

AppendFragment(chunk) ==
  /\ send[1].pc = "read"
  /\ Len(send[1].assistantSoFar) + Len(chunk) <= MaxText
  /\ LET d == upsertAssistant(Decode(1, now), chunk)
     IN /\ messages' = d.msgs
        /\ send' = [send EXCEPT ![1].assistantSoFar = d.soFar]
        /\ hist' = [hist EXCEPT ![1].published = d.published,
                                ![1].received = @ \o chunk]
  /\ UNCHANGED <<isLoading, renderedLoading, now, toasts, body, calls, feeds>>

NextAssembler == \E chunk \in Fragments : AppendFragment(chunk)

SpecAssembler == InitAssembler /\ [][NextAssembler]_vars

(***************************************************************************)
(* The same invocations under the scheduling the claims about progress     *)
(* assume: a request that was issued, and a read that was started, is      *)
(* eventually answered (by a result or by a failure).                      *)
(***************************************************************************)
FetchStep(s) ==
  \/ FetchThrows(s)
  \/ \E status \in Statuses, e \in ErrorBodies : FetchNotOk(s, status, e)
  \/ FetchNoBody(s)
  \/ FetchOk(s)

ReadStep(s) ==
  \/ ReadThrows(s)
  \/ \E t \in Clock : ReadDone(s, t)
  \/ \E t \in Clock : \E n \in 1..Len(body[s]) : ReadChunk(s, n, t)

SpecLive ==
  Init /\ [][Next]_vars
       /\ \A s \in Sends : WF_vars(FetchStep(s)) /\ WF_vars(ReadStep(s))

(***************************************************************************)
(* The orchestrator in its environment: a transport that may stall, and a  *)
(* caller that may give a reply up while it streams.                       *)
(***************************************************************************)
\* reader.read() never settles.  No timer races the read (177) and nothing
\* else resumes the loop: the invocation stays at its await.
ReadStalls(s) ==
  /\ send[s].pc = "read"
  /\ send' = [send EXCEPT ![s].pc = "stalled"]
  /\ UNCHANGED <<messages, isLoading, renderedLoading, now, toasts, body,
                 calls, feeds, hist>>

\* the invocations in flight are marked as given up
Abandoned ==
  [s \in Sends |->
     IF s \in InProgress /\ hist[s].atAbandon = <<>>
     THEN [hist[s] EXCEPT !.atAbandon =
             <<Len(hist[s].published), Len(hist[s].received)>>]
     ELSE hist[s]]

\* The caller navigates away: the component that called useChat unmounts.
\* useChat registers no cleanup, fetch is given no signal and the reader is
\* never cancelled (31-36, 144-151, 171): nothing of the program changes.
NavigateAway ==
  /\ \E s \in InProgress : hist[s].atAbandon = <<>>
  /\ hist' = Abandoned
  /\ UNCHANGED <<messages, isLoading, renderedLoading, now, toasts, send,
                 body, calls, feeds>>

\* clearMessages of the chat store (32, 231): the conversation is cleared
ClearMessages ==
  /\ messages # <<>>
  /\ messages' = <<>>
  /\ hist' = Abandoned
  /\ UNCHANGED <<isLoading, renderedLoading, now, toasts, send, body, calls,
                 feeds>>

NextOrch ==
  \/ Next
  \/ \E s \in Sends : ReadStalls(s)
  \/ NavigateAway
  \/ ClearMessages

\* one invocation, a few feeds
InitOrch == InitWith(1, "few")

SpecOrch ==
  InitOrch /\ [][NextOrch]_vars
       /\ \A s \in Sends : WF_vars(FetchStep(s)) /\ WF_vars(ReadStep(s))

(***************************************************************************)
(* Vocabulary of the claims.                                               *)
(***************************************************************************)
IsPrefix(a, b) == Len(a) <= Len(b) /\ SubSeq(b, 1, Len(a)) = a

IsSuffix(a, b) == Len(a) <= Len(b) /\ SubSeq(b, Len(b) - Len(a) + 1, Len(b)) = a

\* the invocations that got a streaming response
Streamed == {s \in Sends : hist[s].response = 200}

\* the view invocation s published last
LastView(s) == hist[s].published[Len(hist[s].published)]

\* the decode loop run on a feed that arrives as one chunk: one pass of the
\* read loop over it, then the final flush
SingleChunk(feed) ==
  FinalFlush(ReadLoopBody(
    [soFar |-> <<>>, buf |-> <<>>, msgs |-> <<>>, id |-> 0, ts |-> 0,
     streamDone |-> FALSE, records |-> <<>>, published |-> <<>>,
     malformed |-> <<>>, atFail |-> 0], feed))

\* the contents of the data records of a feed, in feed order, up to its first
\* sentinel record
RECURSIVE ContentBeforeSentinel(_)
ContentBeforeSentinel(raws) ==
  IF raws = <<>> THEN <<>>
  ELSE LET line == StripCR(Head(raws))
       IN IF Skipped(line) THEN ContentBeforeSentinel(Tail(raws))
          ELSE IF JsonStr(line) = <<DONE>> THEN <<>>
          ELSE PayloadContent(JsonStr(line)).content
                 \o ContentBeforeSentinel(Tail(raws))

\* a marker of the shape <!--QUICK_REPLIES:[ ... ]--> on one line, opened at
\* i and closed at j
IsMarker(text, i, j) ==
  /\ i \in 1..Len(text) /\ j \in (i + 1)..Len(text)
  /\ text[i] = MOPEN /\ text[j] = MCLOSE
  /\ \A k \in (i + 1)..(j - 1) : text[k] \notin {NL, CR}

Markers(text) ==
  {m \in (1..Len(text)) \X (1..Len(text)) : IsMarker(text, m[1], m[2])}

\* the first of a set of markers, its bracketed contents taken as short as
\* possible
First(ms) ==
  {m \in ms : \A o \in ms : m[1] < o[1] \/ (m[1] = o[1] /\ m[2] <= o[2])}

FirstMarker(text) == First(Markers(text))

\* a marker match: the search asks for one character or more between the
\* brackets
FirstMatch(text) == First({m \in Markers(text) : m[2] > m[1] + 1})

Inner(text, m) == SubSeq(text, m[1] + 1, m[2] - 1)

Without(text, m) == SubSeq(text, 1, m[1] - 1) \o SubSeq(text, m[2] + 1, Len(text))

\* the bracketed contents are the elements of a JSON array
IsArrayBody(inner) ==
  LET w == SelectSeq(inner, LAMBDA c : c \notin WhiteSpace)
  IN \/ w = <<>>
     \/ /\ Len(w) % 2 = 1
        /\ \A k \in 1..Len(w) : w[k] = (IF k % 2 = 1 THEN YES ELSE COMMA)

ArrayOf(inner) ==
  LET w == SelectSeq(inner, LAMBDA c : c \notin WhiteSpace)
  IN [k \in 1..((Len(w) + 1) \div 2) |-> "Yes"]

\* u is t without the white space around it
IsTrimOf(u, t) ==
  /\ u # <<>> => u[1] \notin WhiteSpace /\ u[Len(u)] \notin WhiteSpace
  /\ \E a \in 0..Len(t) :
       /\ a + Len(u) <= Len(t)
       /\ SubSeq(t, a + 1, a + Len(u)) = u
       /\ \A k \in (1..a) \cup ((a + Len(u) + 1)..Len(t)) : t[k] \in WhiteSpace

RECURSIVE JoinNL(_)
JoinNL(rs) == IF rs = <<>> THEN <<>> ELSE Head(rs) \o <<NL>> \o JoinNL(Tail(rs))

\* a text without the one CR that stands right before each NL
RECURSIVE StripOneCR(_)
StripOneCR(t) ==
  IF Len(t) >= 2 /\ t[1] = CR /\ t[2] = NL THEN <<NL>> \o StripOneCR(Tail(Tail(t)))
  ELSE IF t = <<>> THEN <<>>
  ELSE <<Head(t)>> \o StripOneCR(Tail(t))

\* a feed with no record that fails to parse and no sentinel
Plain(feed) == \A k \in 1..Len(feed) : feed[k] \notin {P_BAD, P_NULL, DONE}

\* the content string a line of the feed carries: none for a line that is
\* no data record, for the sentinel and for a payload without content
LineContent(raw) ==
  LET line == StripCR(raw)
  IN IF raw = <<>> \/ Skipped(line) \/ JsonStr(line) = <<DONE>> THEN <<>>
     ELSE PayloadContent(JsonStr(line)).content

Contents(text) ==
  [k \in 1..Len(SplitNL(text)) |-> LineContent(SplitNL(text)[k])]

\* the contents at the indices in I, one after the other in feed order
RECURSIVE ConcatFrom(_, _, _)
ConcatFrom(recs, I, k) ==
  IF k > Len(recs) THEN <<>>
  ELSE (IF k \in I THEN recs[k] ELSE <<>>) \o ConcatFrom(recs, I, k + 1)

Carrying(recs) == {k \in 1..Len(recs) : recs[k] # <<>>}

\* what JSON.parse accepts among the payloads
JsonValid(jsonStr) ==
  jsonStr \in {<<P_H>>, <<P_OPEN>>, <<P_CLOSE>>, <<P_EMPTY>>, <<P_ROLE>>, <<P_NULL>>}

\* the payloads with a string at choices[0].delta.content
HasContentString(jsonStr) ==
  jsonStr \in {<<P_H>>, <<P_OPEN>>, <<P_CLOSE>>, <<P_EMPTY>>}

\* a record without effect: blank, a comment, no data record, or a payload
\* that parses and has no content string
Ignorable(line) ==
  \/ Trim(line) = <<>>
  \/ line[1] = COLON
  \/ line[1] # DATA
  \/ JsonValid(Trim(Tail(line))) /\ ~HasContentString(Trim(Tail(line)))

\* a record with a content string
Fragment(line) ==
  /\ line # <<>> /\ line[1] = DATA
  /\ JsonValid(Trim(Tail(line))) /\ HasContentString(Trim(Tail(line)))

\* a text up to and with its last newline: its complete lines
RECURSIVE Complete(_)
Complete(text) ==
  IF text = <<>> \/ text[Len(text)] = NL THEN text
  ELSE Complete(SubSeq(text, 1, Len(text) - 1))

\* the first marker match of the text has contents that are no JSON array
FailedMatch(text) ==
  \E m \in FirstMatch(text) : ~IsArrayBody(Inner(text, m))

KindFor(status) ==
  CASE status = 429 -> "Rate Limited"
    [] status = 402 -> "Credits Exhausted"
    [] OTHER -> "Error"

(***************************************************************************)
(* The claims.                                                             *)
(***************************************************************************)
\* C1  Chunk-boundary invariance: when the decode loop of an invocation has
\* run to its end (read loop and final flush), assistantSoFar and the
\* sequence of published views are those of the same feed decoded as one
\* single chunk.
C1_ChunkBoundaryInvariance ==
  \A s \in Streamed :
    hist[s].ended = "end" =>
      /\ send[s].assistantSoFar = SingleChunk(hist[s].feed).soFar
      /\ hist[s].published = SingleChunk(hist[s].feed).published

\* C2  Termination stops consumption: assistantSoFar never holds the content
\* of a record that follows the feed's first sentinel record; it is a prefix
\* of the contents of the records before the sentinel.
C2_TerminationStopsConsumption ==
  \A s \in Streamed :
    IsPrefix(send[s].assistantSoFar,
             ContentBeforeSentinel(SplitNL(hist[s].feed)))

\* C3  Single in-place assistant message: after one or more appends for a
\* reply, and nothing else touching the list, exactly one message has the
\* reply's id, it is the last one, and its content and quickReplies are
\* extractQuickReplies of all the fragments concatenated.
C3_SingleInPlaceMessage ==
  hist[1].published # <<>> =>
    LET mine == {i \in 1..Len(messages) : messages[i].id = send[1].assistantId}
        whole == extractQuickReplies(hist[1].received)
    IN /\ Cardinality(mine) = 1
       /\ \A i \in mine :
            /\ i = Len(messages)
            /\ messages[i].role = "assistant"
            /\ messages[i].content = whole.cleanContent
            /\ messages[i].quickReplies = whole.quickReplies

\* a reply whose marker was opened by an earlier fragment and closed by the
\* last one, after an earlier exchange
C3_Witness ==
  /\ Len(hist[1].published) >= 2
  /\ LastView(1).quickReplies = <<"Yes">>
  /\ LastView(1).cleanContent = <<H>>
  /\ LET before == hist[1].published[Len(hist[1].published) - 1]
     IN /\ before.quickReplies = <<>>
        /\ \E k \in 1..Len(before.cleanContent) : before.cleanContent[k] = MOPEN
  /\ Len(messages) = 4

\* C4  No loss, no duplication in the line framer: for a feed with no
\* malformed record and no sentinel, the records sliced out of textBuffer,
\* each followed by a newline, and then what textBuffer still holds, are the
\* chunks received so far without the one CR before each newline.
C4_NoLossNoDuplication ==
  \A s \in Streamed :
    Plain(hist[s].feed) =>
      JoinNL(hist[s].records) \o send[s].textBuffer = StripOneCR(hist[s].received)

\* a CR LF record sliced out while part of the next line waits in textBuffer
C4_Witness ==
  \E s \in Streamed :
    /\ Plain(hist[s].feed)
    /\ hist[s].records = <<(<<DATA, P_H>>)>>
    /\ send[s].textBuffer = <<DATA, P_H>>
    /\ hist[s].received = <<DATA, P_H, CR, NL, DATA, P_H>>

\* C5  Only one reply in flight: an invocation made while another one is
\* past the guard and not yet finished returns at the guard (no user
\* message, no request, no fragment).
C5_OneInFlight ==
  \A s \in Sends : hist[s].busyAtCall => send[s].pc \in {"none", "returned"}

C7_AnnotationStripping ==
  hist[1].published # <<>> =>
    \A m \in FirstMarker(send[1].assistantSoFar) :
      IsArrayBody(Inner(send[1].assistantSoFar, m)) =>
        /\ LastView(1).quickReplies = ArrayOf(Inner(send[1].assistantSoFar, m))
        /\ IsTrimOf(LastView(1).cleanContent, Without(send[1].assistantSoFar, m))

\* C8  Malformed annotation tolerance: when the text has no marker match,
\* or the bracketed contents of its first marker match are no JSON array,
\* cleanContent is the text itself (not trimmed) and quickReplies is empty.
C8_MalformedAnnotation ==
  ( /\ hist[1].published # <<>>
    /\ \/ FirstMatch(send[1].assistantSoFar) = {}
       \/ \E m \in FirstMatch(send[1].assistantSoFar) :
            ~IsArrayBody(Inner(send[1].assistantSoFar, m)) ) =>
    /\ LastView(1).cleanContent = send[1].assistantSoFar
    /\ LastView(1).quickReplies = <<>>

\* a marker around a letter, with white space around the text
C8_Witness ==
  /\ send[1].assistantSoFar = <<SP, MOPEN, H, MCLOSE, SP>>
  /\ LastView(1).cleanContent = <<SP, MOPEN, H, MCLOSE, SP>>

\* C9  Lossless malformed recovery: while the stream is open, once a data
\* record has failed to parse, textBuffer starts with that record and a
\* newline, followed by the end of what was received, and nothing has been
\* published since.
C9_LosslessRecovery ==
  \A s \in Streamed :
    (send[s].pc = "read" /\ hist[s].malformed # <<>>) =>
      LET rec == hist[s].malformed[1]
          buf == send[s].textBuffer
      IN /\ StartsWith(rec, DATA) /\ PayloadContent(JsonStr(rec)).threw
         /\ IsPrefix(rec \o <<NL>>, buf)
         /\ IsSuffix(SubSeq(buf, Len(rec) + 2, Len(buf)), hist[s].received)
         /\ Len(hist[s].published) = hist[s].atFail

\* a malformed record tried twice, with a content record waiting behind it
C9_Witness ==
  \E s \in Streamed :
    /\ send[s].pc = "read"
    /\ hist[s].malformed = <<(<<DATA, P_BAD>>)>>
    /\ hist[s].records = <<(<<DATA, P_BAD>>), (<<DATA, P_BAD>>)>>
    /\ send[s].textBuffer = <<DATA, P_BAD, NL, DATA, P_H, NL>>

\* C10  Errors are surfaced once and distinctly: a non-success response
\* raises exactly one notification, of the kind its status calls for, with
\* nothing read and nothing published; a request or read that throws raises
\* exactly one Connection Error.
C10_ErrorsSurfacedOnce ==
  \A s \in Sends :
    /\ hist[s].ended = "notok" =>
         /\ toasts[s] = <<KindFor(hist[s].response)>>
         /\ hist[s].received = <<>> /\ hist[s].published = <<>>
    /\ hist[s].ended = "threw" => toasts[s] = <<"Connection Error">>

\* C11  Bounded wait on reads: an invocation whose read stalls still comes to
\* its end (as after a transport error), which clears isLoading.
C11_BoundedWait ==
  \A s \in Sends : (send[s].pc = "stalled") ~> (send[s].pc = "done")

\* C12  Cancellation: once the caller has given a reply up, nothing more is
\* read from its transport and no further view of it is published.
C12_Cancellation ==
  \A s \in Sends :
    hist[s].atAbandon # <<>> =>
      /\ Len(hist[s].published) = hist[s].atAbandon[1]
      /\ Len(hist[s].received) = hist[s].atAbandon[2]

\* C13  Publishing never adds a second assistant message for the same
\* reply: the list holds at most one message with the assistantId of an
\* invocation, and no two messages of the list share an id.
C13_NoSecondAssistantMessage ==
  /\ \A s \in Sends :
       send[s].pc \notin {"none", "returned"} =>
         Cardinality({i \in 1..Len(messages) :
                        messages[i].id = send[s].assistantId}) <= 1
  /\ \A i, j \in 1..Len(messages) : messages[i].id = messages[j].id => i = j

\* C14  Ordering: at every point of a stream assistantSoFar is the contents
\* of some of the records received, each taken once, one after the other
\* in feed order, and one view was published for each of them.
C14_Ordering ==
  \A s \in Streamed :
    LET recs == Contents(hist[s].received)
    IN \E I \in SUBSET Carrying(recs) :
         /\ send[s].assistantSoFar = ConcatFrom(recs, I, 1)
         /\ Len(hist[s].published) = Cardinality(I)

\* a marker opened by one record and closed by the next
C14_Witness ==
  \E s \in Streamed :
    /\ hist[s].received = <<DATA, P_OPEN, NL, DATA, P_CLOSE, NL>>
    /\ send[s].assistantSoFar = <<MOPEN, YES, MCLOSE>>
    /\ Len(hist[s].published) = 2
    /\ LastView(s).quickReplies = <<"Yes">>

C16_IgnorableNoEffect ==
  \A s \in Streamed :
    (\A k \in 1..Len(SplitNL(hist[s].feed)) :
        LET line == StripCR(SplitNL(hist[s].feed)[k])
        IN Ignorable(line) \/ Fragment(line)) =>
      /\ hist[s].malformed = <<>>
      /\ send[s].pc = "read" =>
           LET recs == Contents(Complete(hist[s].received))
           IN send[s].assistantSoFar = ConcatFrom(recs, Carrying(recs), 1)

\* C17  Backpressure: whenever the next chunk is requested, textBuffer
\* holds no newline, unless the record the loop put back sits at its head.
C17_Backpressure ==
  \A s \in Streamed :
    send[s].pc = "read" =>
      \/ IndexOf(send[s].textBuffer, NL) = 0
      \/ /\ hist[s].malformed # <<>>
         /\ IsPrefix(hist[s].malformed[1] \o <<NL>>, send[s].textBuffer)

\* a record processed and the start of the next one held back
C17_Witness ==
  \E s \in Streamed :
    /\ send[s].pc = "read"
    /\ hist[s].records = <<(<<DATA, P_H>>)>>
    /\ send[s].textBuffer = <<DATA>>
    /\ send[s].assistantSoFar = <<H>>

\* C18  Only the current assistant message is mutated while streaming: a
\* step in which an invocation publishes either replaces content and
\* quickReplies of the last message, when that is the assistant message
\* with its assistantId (id, role and timestamp kept), or appends one new
\* assistant message; every other message stays as and where it is.
C18_OnlyCurrentMutated ==
  [][\A s \in Sends :
       hist'[s].published # hist[s].published =>
         LET n == Len(messages)
             view == hist'[s].published[Len(hist'[s].published)]
         IN IF n > 0 /\ messages[n].role = "assistant"
                     /\ messages[n].id = send[s].assistantId
            THEN /\ Len(messages') = n
                 /\ \A i \in 1..(n - 1) : messages'[i] = messages[i]
                 /\ messages'[n] = [messages[n] EXCEPT
                                      !.content = view.cleanContent,
                                      !.quickReplies = view.quickReplies]
            ELSE /\ Len(messages') = n + 1
                 /\ \A i \in 1..n : messages'[i] = messages[i]
                 /\ messages'[n + 1].id = send[s].assistantId
                 /\ messages'[n + 1].role = "assistant"
                 /\ messages'[n + 1].content = view.cleanContent
                 /\ messages'[n + 1].quickReplies = view.quickReplies]_vars

\* a reply published twice behind the user messages of two invocations
C18_Witness ==
  \E s \in Sends :
    /\ Len(hist[s].published) = 2
    /\ Len(messages) = 3
    /\ messages[1].role = "user" /\ messages[2].role = "user"
    /\ messages[3].role = "assistant"
    /\ messages[3].id = send[s].assistantId
    /\ messages[3].content = <<H, H>>

\* C19  Head-of-line blocking: once a record was put back, every chunk read
\* meets that record first and puts it back again: nothing is applied or
\* published, and a sentinel received does not end the loop; when the
\* transport signals the end, the final flush applies the records that
\* waited behind it.
C19_HeadOfLineBlocking ==
  [][\A s \in Sends :
       (send[s].pc = "read" /\ hist[s].malformed # <<>>) =>
         /\ hist'[s].received # hist[s].received =>
              /\ send'[s].pc = "read"
              /\ hist'[s].records = Append(hist[s].records, hist[s].malformed[1])
              /\ hist'[s].published = hist[s].published
              /\ send'[s].assistantSoFar = send[s].assistantSoFar
         /\ hist'[s].ended = "end" =>
              /\ body[s] = <<>>
              /\ LET recs == Contents(send[s].textBuffer)
                 IN send'[s].assistantSoFar =
                      send[s].assistantSoFar \o ConcatFrom(recs, Carrying(recs), 1)]_vars

\* a sentinel received behind a record that was put back: the loop goes on
C19_Witness ==
  \E s \in Streamed :
    /\ send[s].pc = "read"
    /\ hist[s].received = <<DATA, P_BAD, NL, DATA, DONE, NL>>
    /\ hist[s].records = <<(<<DATA, P_BAD>>), (<<DATA, P_BAD>>)>>
    /\ send[s].textBuffer = hist[s].received

\* C20  Stability of the extracted annotation: once a view of a reply has
\* quickReplies, the next view has the same; once the first marker match
\* of the text has contents that are no JSON array, it stays so and the
\* next view has no quickReplies.
C20_AnnotationStability ==
  [][/\ (hist[1].published # <<>> /\ LastView(1).quickReplies # <<>>) =>
          hist'[1].published[Len(hist'[1].published)].quickReplies
            = LastView(1).quickReplies
     /\ FailedMatch(send[1].assistantSoFar) =>
          /\ FailedMatch(send'[1].assistantSoFar)
          /\ hist'[1].published[Len(hist'[1].published)].quickReplies = <<>>]_vars

\* a second closing after the marker: the first match stays the match
C20_Witness ==
  /\ send[1].assistantSoFar = <<MOPEN, YES, MCLOSE, YES, MCLOSE>>
  /\ Len(hist[1].published) >= 3
  /\ hist[1].published[Len(hist[1].published) - 2].quickReplies = <<"Yes">>
  /\ LastView(1).quickReplies = <<"Yes">>
====
